---- MODULE Spec2Model ----
(***************************************************************************)
(* Model of split.py: choose_num_parts, split_image_with_overlap and the   *)
(* geometry part of save_parts.  Boxes are tuples <<y0, y1, x0, x1>>.      *)
(* Reals are exact rationals: total / num_parts is the pair (total,        *)
(* num_parts) and overlap_frac is overlap / OvDen.  round() is Python's    *)
(* round-half-to-even.                                                     *)
(***************************************************************************)
EXTENDS Integers, Sequences, FiniteSets, TLC

\* ---- bounds of the model ----
MaxDim == 24
MaxOther == 2

\* ---- thresholds of choose_num_parts ----
T5 == 5000
T4 == 3500
T3 == 2200
T2 == 1000

\* overlap_frac = overlap / OvDen, overlap in OvNums (0.0, 0.1, 0.2, 0.25, 0.5).
\* For these fractions and every extent in Dims the binary floating point
\* product part_nominal * (1 - overlap_frac) rounds to the same integer as the
\* exact rational product.
OvDen == 20
OvNums == {0, 2, 4, 5, 10}

ThresholdDims == {T2 - 1, T2, T3 - 1, T3, T4 - 1, T4, T5 - 1, T5}
Dims == (1..MaxDim) \cup ThresholdDims
PartCounts == 2..5

VARIABLES mode, h, w, num_parts, overlap, axis, pc,
          total, step, i, start, end, boxes, rebuilt, final_boxes

vars == <<mode, h, w, num_parts, overlap, axis, pc,
          total, step, i, start, end, boxes, rebuilt, final_boxes>>

Max(a, b) == IF a >= b THEN a ELSE b
Min(a, b) == IF a <= b THEN a ELSE b

\* Python round(p / q) for p >= 0, q > 0: nearest integer, ties to even
RoundHalfEven(p, q) ==
  LET fl == p \div q
      r  == p % q
  IN  IF 2 * r < q THEN fl
      ELSE IF 2 * r > q THEN fl + 1
      ELSE IF fl % 2 = 0 THEN fl ELSE fl + 1

choose_num_partsGT(long_dim) ==
  IF long_dim > T5 THEN 5
  ELSE IF long_dim > T4 THEN 4
  ELSE IF long_dim > T3 THEN 3
  ELSE IF long_dim > T2 THEN 2
  ELSE 2

choose_num_parts(long_dim) ==
  IF long_dim >= T5 THEN 5
  ELSE IF long_dim >= T4 THEN 4
  ELSE IF long_dim >= T3 THEN 3
  ELSE IF long_dim >= T2 THEN 2
  ELSE 2

ClampPartsSwapped(n) == Min(2, Max(5, n))

\* num_parts = max(2, min(5, num_parts))
ClampParts(n) == Max(2, Min(5, n))

\* axis = 1 if w >= h else 0
ChooseAxis(hh, ww) == IF ww >= hh THEN 1 ELSE 0

TotalOf(hh, ww, ax) == IF ax = 1 THEN ww ELSE hh

StepNoOverlap(t, n, ov) ==
  LET s == RoundHalfEven(t, n) IN IF s < 1 THEN 1 ELSE s

\* step = int(round(part_nominal * (1 - overlap_frac))); if step < 1: step = 1
StepOf(t, n, ov) ==
  LET s == RoundHalfEven(t * (OvDen - ov), n * OvDen) IN IF s < 1 THEN 1 ELSE s

IsLastNever(k, n) == FALSE

\* i == num_parts - 1
IsLast(k, n) == k = n - 1

StrideEndRoundSum(st, t, n) == RoundHalfEven(st * n + t, n)

StrideEndNoStart(st, t, n) == RoundHalfEven(t, n)

\* end = start + int(round(part_nominal))
StrideEnd(st, t, n) == st + RoundHalfEven(t, n)

MkBoxColumnsOnly(ax, hh, ww, s, e) == <<0, hh, s, e>>

\* (0, h, s, e) when axis == 1, else (s, e, 0, w)
MkBox(ax, hh, ww, s, e) ==
  IF ax = 1 THEN <<0, hh, s, e>> ELSE <<s, e, 0, ww>>

PrependBox(bs, b) == <<b>> \o bs

\* boxes.append(...)
AppendBox(bs, b) == Append(bs, b)

\* the clamped box of one stride iteration
StrideBox(ax, hh, ww, t, st, en) ==
  MkBox(ax, hh, ww, Max(0, Min(t - 1, st)), Max(1, Min(t, en)))

NeedsRebuildNever(len, n) == FALSE

\* len(boxes) < num_parts
NeedsRebuild(len, n) == len < n

EvenBoxesTrunc(ax, hh, ww, t, n) ==
  [k \in 1..n |-> MkBox(ax, hh, ww, ((k - 1) * t) \div n, (k * t) \div n)]

\* rebuild by evenly spacing starts
EvenBoxes(ax, hh, ww, t, n) ==
  [k \in 1..n |->
     MkBox(ax, hh, ww, RoundHalfEven((k - 1) * t, n), RoundHalfEven(k * t, n))]

RepairNoWiden(hh, ww, b) ==
  LET y0 == Max(0, Min(hh - 1, b[1]))
      y1 == Min(hh, b[2])
      x0 == Max(0, Min(ww - 1, b[3]))
      x1 == Min(ww, b[4])
  IN  <<y0, y1, x0, x1>>

\* final ensure boxes are within bounds and non-empty
Repair(hh, ww, b) ==
  LET y0 == Max(0, Min(hh - 1, b[1]))
      y1 == Max(y0 + 1, Min(hh, b[2]))
      x0 == Max(0, Min(ww - 1, b[3]))
      x1 == Max(x0 + 1, Min(ww, b[4]))
  IN  <<y0, y1, x0, x1>>

\* ---- state machine ----

Init ==
  /\ mode \in {"split", "save"}
  /\ h \in Dims
  /\ w \in Dims
  /\ Min(h, w) <= MaxOther
  /\ overlap \in OvNums
  /\ IF mode = "split"
       THEN /\ num_parts \in PartCounts
            /\ axis \in {0, 1}
            /\ pc = "split_entry"
       ELSE /\ num_parts = 0
            /\ axis = 1
            /\ pc = "save_parts"
  /\ total = 0
  /\ step = 0
  /\ i = 0
  /\ start = 0
  /\ end = 0
  /\ boxes = <<>>
  /\ rebuilt = FALSE
  /\ final_boxes = <<>>

\* save_parts up to the call of split_image_with_overlap
SaveParts ==
  /\ pc = "save_parts"
  /\ LET longer == Max(h, w) IN
       /\ axis' = ChooseAxis(h, w)
       /\ num_parts' = ClampParts(choose_num_parts(longer))
  /\ pc' = "split_entry"
  /\ UNCHANGED <<mode, h, w, overlap, total, step, i, start, end, boxes,
                 rebuilt, final_boxes>>

\* split_image_with_overlap: total, part_nominal, step, boxes = [], start = 0
SplitEntry ==
  /\ pc = "split_entry"
  /\ total' = TotalOf(h, w, axis)
  /\ step' = StepOf(TotalOf(h, w, axis), num_parts, overlap)
  /\ boxes' = <<>>
  /\ start' = 0
  /\ i' = 0
  /\ pc' = "stride"
  /\ UNCHANGED <<mode, h, w, num_parts, overlap, axis, end, rebuilt, final_boxes>>

\* one iteration of the stride loop; i counts the iterations done
StrideIter ==
  /\ pc = "stride"
  /\ i < num_parts
  /\ LET e == IF IsLast(i, num_parts) THEN total
              ELSE StrideEnd(start, total, num_parts)
     IN  /\ end' = e
         /\ boxes' = AppendBox(boxes, StrideBox(axis, h, w, total, start, e))
  /\ start' = start + step
  /\ i' = i + 1
  /\ pc' = IF start + step >= total \/ i + 1 = num_parts THEN "check" ELSE "stride"
  /\ UNCHANGED <<mode, h, w, num_parts, overlap, axis, total, step, rebuilt,
                 final_boxes>>

\* if len(boxes) < num_parts: rebuild by evenly spacing starts
Rebuild ==
  /\ pc = "check"
  /\ NeedsRebuild(Len(boxes), num_parts)
  /\ boxes' = EvenBoxes(axis, h, w, total, num_parts)
  /\ rebuilt' = TRUE
  /\ pc' = "final"
  /\ UNCHANGED <<mode, h, w, num_parts, overlap, axis, total, step, i, start,
                 end, final_boxes>>

KeepStride ==
  /\ pc = "check"
  /\ ~NeedsRebuild(Len(boxes), num_parts)
  /\ pc' = "final"
  /\ UNCHANGED <<mode, h, w, num_parts, overlap, axis, total, step, i, start,
                 end, boxes, rebuilt, final_boxes>>

\* final pass over boxes, return final_boxes
FinalPass ==
  /\ pc = "final"
  /\ final_boxes' = [k \in 1..Len(boxes) |-> Repair(h, w, boxes[k])]
  /\ pc' = "done"
  /\ UNCHANGED <<mode, h, w, num_parts, overlap, axis, total, step, i, start,
                 end, boxes, rebuilt>>

Next ==
  \/ SaveParts
  \/ SplitEntry
  \/ StrideIter
  \/ Rebuild
  \/ KeepStride
  \/ FinalPass

Spec == Init /\ [][Next]_vars

\* ---- helpers of the properties ----

\* start and end of a box along the split axis
BStart(b) == IF axis = 1 THEN b[3] ELSE b[1]
BEnd(b) == IF axis = 1 THEN b[4] ELSE b[2]
Done == pc = "done"


\* overlap in pixels of returned boxes k and k+1 along the split axis
OverlapPx(k) == BEnd(final_boxes[k]) - BStart(final_boxes[k + 1])
Abs(x) == IF x >= 0 THEN x ELSE 0 - x
\* |px - overlap_frac * (total / num_parts)| <= 1, in integers
WithinOne(px) ==
  Abs(px * OvDen * num_parts - overlap * total) <= OvDen * num_parts
\* overlap_frac * (total / num_parts) > 1
NominalOverlapAboveOne == overlap * total > OvDen * num_parts
\* total / num_parts has fractional part exactly 0.5
NominalIsHalf == (2 * total) % (2 * num_parts) = num_parts
AfterIter == pc \in {"stride", "check", "final", "done"} /\ i >= 1
Saved == mode = "save" /\ pc # "save_parts"

\* ---- C1 ----
\* C1: split_image_with_overlap returns exactly num_parts boxes for every
\* total >= 1, also when total < num_parts, on the stride path and on the
\* even-spacing rebuild path.
C1_Count == Done => Len(final_boxes) = num_parts

C1_Witness ==
  /\ Done
  /\ total = 2 /\ num_parts = 5 /\ overlap = 10
  /\ rebuilt
  /\ Len(final_boxes) = 5

\* ---- C2 ----
\* C2: the returned boxes cover exactly [0, total) along the split axis: the
\* first starts at 0, the last ends at total, every pixel index is in some
\* box and no box leaves [0, total).
C2_Coverage ==
  Done =>
    /\ Len(final_boxes) >= 1
    /\ BStart(final_boxes[1]) = 0
    /\ BEnd(final_boxes[Len(final_boxes)]) = total
    /\ \A k \in 1..Len(final_boxes) :
         0 <= BStart(final_boxes[k]) /\ BEnd(final_boxes[k]) <= total
    /\ \A p \in 0..(total - 1) :
         \E k \in 1..Len(final_boxes) :
           BStart(final_boxes[k]) <= p /\ p < BEnd(final_boxes[k])

C2_Witness ==
  /\ Done
  /\ ~rebuilt
  /\ total = 10 /\ num_parts = 2 /\ overlap = 10
  /\ BEnd(final_boxes[1]) < total
  /\ BEnd(final_boxes[2]) = total

\* ---- C3 ----
\* C3: every returned box has 0 <= y0 < y1 <= height and 0 <= x0 < x1 <= width
\* and spans the whole other dimension on the axis orthogonal to the split.
C3_Validity ==
  Done =>
    \A k \in 1..Len(final_boxes) :
      LET b == final_boxes[k] IN
        /\ 0 <= b[1] /\ b[1] < b[2] /\ b[2] <= h
        /\ 0 <= b[3] /\ b[3] < b[4] /\ b[4] <= w
        /\ IF axis = 1 THEN b[1] = 0 /\ b[2] = h ELSE b[3] = 0 /\ b[4] = w

C3_Witness ==
  /\ Done
  /\ axis = 0
  /\ rebuilt
  /\ h = 2 /\ num_parts = 4
  /\ final_boxes[1] = <<0, 1, 0, w>>

\* ---- C4 ----
\* C4 as claimed: with overlap_frac > 0 every pair of consecutive returned
\* boxes overlaps by a strictly positive number of pixels that is within 1 of
\* overlap_frac * (total / num_parts).
C4_Original ==
  (Done /\ overlap > 0) =>
    \A k \in 1..(Len(final_boxes) - 1) :
      OverlapPx(k) > 0 /\ WithinOne(OverlapPx(k))

\* C4 amended: with overlap_frac > 0 the overlap of consecutive returned
\* boxes is never negative and is within 1 of overlap_frac * (total /
\* num_parts); it is strictly positive whenever overlap_frac * (total /
\* num_parts) > 1.
C4_Overlap ==
  (Done /\ overlap > 0) =>
    \A k \in 1..(Len(final_boxes) - 1) :
      /\ OverlapPx(k) >= 0
      /\ WithinOne(OverlapPx(k))
      /\ NominalOverlapAboveOne => OverlapPx(k) > 0

C4_Witness ==
  /\ Done
  /\ total = 1000 /\ num_parts = 3 /\ overlap = 4
  /\ OverlapPx(1) = 66 /\ OverlapPx(2) = 66

\* ---- C5 ----
\* C5: choose_num_parts gives 5 from 5000, 4 from 3500, 3 from 2200 and 2
\* below; the result is in 2..5 and changes exactly at 2200, 3500 and 5000.
C5_Table ==
  Saved =>
    LET long_dim == Max(h, w) IN
      /\ num_parts \in 2..5
      /\ long_dim >= 5000 => num_parts = 5
      /\ (long_dim >= 3500 /\ long_dim < 5000) => num_parts = 4
      /\ (long_dim >= 2200 /\ long_dim < 3500) => num_parts = 3
      /\ long_dim < 2200 => num_parts = 2

C5_Witness ==
  /\ Saved
  /\ Max(h, w) = 2200
  /\ num_parts = 3

\* ---- C6 ----
\* C6: the returned boxes are in ascending order of their start along the
\* split axis.
C6_Ordering ==
  Done =>
    \A k \in 1..(Len(final_boxes) - 1) :
      BStart(final_boxes[k]) <= BStart(final_boxes[k + 1])

C6_Witness ==
  /\ Done
  /\ ~rebuilt
  /\ axis = 0
  /\ num_parts = 5
  /\ \A k \in 1..4 : BStart(final_boxes[k]) < BStart(final_boxes[k + 1])

\* ---- C7 ----
\* C7 as claimed: when the stride loop stops with fewer than num_parts boxes
\* the returned box k is exactly [round((k-1)*total/num_parts),
\* round(k*total/num_parts)) and consecutive returned boxes share no pixel.
C7_Original ==
  (Done /\ i < num_parts) =>
    /\ rebuilt
    /\ Len(final_boxes) = num_parts
    /\ \A k \in 1..Len(final_boxes) :
         /\ BStart(final_boxes[k]) = RoundHalfEven((k - 1) * total, num_parts)
         /\ BEnd(final_boxes[k]) = RoundHalfEven(k * total, num_parts)
    /\ \A k \in 1..(Len(final_boxes) - 1) : OverlapPx(k) <= 0

\* C7 amended: when the stride loop stops with fewer than num_parts boxes the
\* boxes are rebuilt, and for total >= num_parts the returned box k is exactly
\* the even spacing and consecutive returned boxes share no pixel.
C7_Rebuild ==
  (Done /\ i < num_parts) =>
    /\ rebuilt
    /\ Len(final_boxes) = num_parts
    /\ total >= num_parts =>
         /\ \A k \in 1..Len(final_boxes) :
              /\ BStart(final_boxes[k]) = RoundHalfEven((k - 1) * total, num_parts)
              /\ BEnd(final_boxes[k]) = RoundHalfEven(k * total, num_parts)
         /\ \A k \in 1..(Len(final_boxes) - 1) : OverlapPx(k) <= 0

C7_Witness ==
  /\ Done
  /\ i < num_parts
  /\ rebuilt
  /\ total = 6 /\ num_parts = 4
  /\ BStart(final_boxes[2]) = 2 /\ BEnd(final_boxes[3]) = 4

\* ---- C8 ----
\* C8 as claimed: a part other than the last gets end = round(start +
\* total / num_parts) before clamping, the last part gets total.
C8_Original ==
  AfterIter =>
    /\ step = Max(1, RoundHalfEven(total * (OvDen - overlap), num_parts * OvDen))
    /\ start = i * step
    /\ end = IF i = num_parts THEN total
             ELSE RoundHalfEven((i - 1) * step * num_parts + total, num_parts)

\* C8 amended: a part the loop builds other than the last gets end = start +
\* round(total / num_parts) before clamping, the last part gets total.
C8_End ==
  AfterIter =>
    /\ step = Max(1, RoundHalfEven(total * (OvDen - overlap), num_parts * OvDen))
    /\ start = i * step
    /\ end = IF i = num_parts THEN total
             ELSE (i - 1) * step + RoundHalfEven(total, num_parts)

C8_Witness ==
  /\ pc = "stride"
  /\ i >= 2
  /\ NominalIsHalf
  /\ ((i - 1) * step) % 2 = 1
  /\ end = (i - 1) * step + RoundHalfEven(total, num_parts)

\* ---- C9 ----
\* C9: when the stride loop builds all num_parts boxes every one of them is
\* already valid and the final pass returns them unchanged.
C9_Frame ==
  (Done /\ ~rebuilt /\ Len(boxes) = num_parts) =>
    /\ \A k \in 1..Len(boxes) :
         /\ 0 <= BStart(boxes[k])
         /\ BStart(boxes[k]) < BEnd(boxes[k])
         /\ BEnd(boxes[k]) <= total
         /\ boxes[k] = MkBox(axis, h, w, BStart(boxes[k]), BEnd(boxes[k]))
    /\ final_boxes = boxes

C9_Witness ==
  /\ Done
  /\ ~rebuilt
  /\ Len(boxes) = num_parts
  /\ total = 9 /\ num_parts = 3 /\ overlap = 0
  /\ final_boxes = boxes

\* ---- C10 ----
\* C10: in save_parts the split extent is max(height, width), columns when
\* width >= height and rows otherwise, num_parts is choose_num_parts of it
\* unchanged by the clamp, and for max(height, width) >= 2 the stride loop
\* builds all num_parts boxes so the rebuild is never taken.
C10_SaveParts ==
  Saved =>
    /\ num_parts = choose_num_parts(Max(h, w))
    /\ axis = IF w >= h THEN 1 ELSE 0
    /\ pc # "split_entry" => total = Max(h, w)
    /\ (Max(h, w) >= 2 /\ pc \in {"final", "done"}) =>
         ~rebuilt /\ Len(boxes) = num_parts

C10_Witness ==
  /\ Saved
  /\ Done
  /\ h > w
  /\ h = 3500 /\ num_parts = 4
  /\ ~rebuilt

====
